---- MODULE Spec2Model ----
(***************************************************************************)
(* A model of the OARCHIVE container format of openarchive-rs:             *)
(*   src/src/builder.rs  ArchiveBuilder (push_entry, finish)               *)
(*   src/src/lib.rs      Archive::new, ArchiveHeader, Signature,           *)
(*                       ArchiveTableEntry, ArchiveEntry, ArchiveIterator  *)
(* Buffers are sequences of bytes; integers are written and read as        *)
(* little-endian byte strings, as bytemuck's casts do on the wire.         *)
(***************************************************************************)
EXTENDS Integers, Sequences, FiniteSets, TLC

VARIABLES
    names,          \* ArchiveBuilder.names          (builder.rs:5)
    extra_data,     \* ArchiveBuilder.extra_data     (builder.rs:6)
    data,           \* ArchiveBuilder.data           (builder.rs:7)
    table_entries,  \* ArchiveBuilder.table_entries  (builder.rs:8)
    pushed,         \* history: the tuples given to push_entry, in call order
    bytes,          \* the byte buffer handed to Archive::new
    aligned,        \* whether that buffer starts at an address aligned for ArchiveHeader
    source,         \* history: "finish" while the buffer is finish()'s own Vec, else how the caller changed it
    result,         \* what Archive::new returned: "none" before the call, "Ok", or an Error variant
    archive,        \* the Archive view (lib.rs:235-242) when result = "Ok"
    iter,           \* the ArchiveIterator (lib.rs:303-309)
    calls,          \* history: the iterator calls made, "next" or "next_back"
    rets,           \* history: what each returning call returned
    panicked,       \* "none", or the panic that ended the program
    pc              \* "build", "bytes", "archive", "error", "iter", "panic"

vars == <<names, extra_data, data, table_entries, pushed, bytes, aligned, source,
          result, archive, iter, calls, rets, panicked, pc>>

----------------------------------------------------------------------------
(* Bounds of the model *)

\* most push_entry calls on one builder
MaxEntries == 2
\* most next()/next_back() calls on one iterator
MaxCalls == 3

----------------------------------------------------------------------------
(* Sequences of bytes *)

RECURSIVE Flatten(_)
Flatten(ss) == IF ss = <<>> THEN <<>> ELSE Head(ss) \o Flatten(Tail(ss))

RECURSIVE SumSeq(_)
SumSeq(s) == IF s = <<>> THEN 0 ELSE Head(s) + SumSeq(Tail(s))

\* data.split_at(mid); the caller has checked mid <= Len(s)
split_at(s, mid) == <<SubSeq(s, 1, mid), SubSeq(s, mid + 1, Len(s))>>

\* Every length, count and offset of a buffer of this model is below 2^24.
\* A wire integer with a byte set above its third is read as Big: it is larger
\* than every buffer of the model, which is all the code ever asks of it.
Big == 256 * 256 * 256

Pow256(k) == IF k = 0 THEN 1 ELSE IF k = 1 THEN 256 ELSE 256 * 256

\* u32::to_le_bytes / u64::to_le_bytes of n < 2^24, w bytes wide
to_le_bytes(n, w) == [i \in 1..w |-> IF i <= 3 THEN (n \div Pow256(i - 1)) % 256 ELSE 0]

\* u32::from_le_bytes / u64::from_le_bytes
from_le_bytes(b) ==
    IF \E i \in 4..Len(b) : b[i] # 0
    THEN Big
    ELSE b[1] + 256 * b[2] + 256 * 256 * b[3]

\* the bytes of u32::MAX
U32_MAX == <<255, 255, 255, 255>>

----------------------------------------------------------------------------
(* lib.rs: constants and layout *)

\* b"OARCHIVE"
MAGIC == <<79, 65, 82, 67, 72, 73, 86, 69>>

VERSION_0_0_1_0 == from_le_bytes(<<0, 0, 1, 0>>)

VERSIONS == <<VERSION_0_0_1_0>>

\* size_of::<ArchiveHeader>(): [u8; 8], u32, u32, u64, u64, u64 under repr(C)
HeaderSize == 40
\* size_of::<Signature>(): a u32 tag and the u32 field of OS under repr(u32)
SignatureSize == 8
\* size_of::<ArchiveTableEntry>(): Signature and six u64 under repr(C)
TableEntrySize == 56

Error == {"InvalidMagic", "InvalidVersion", "InvalidSignature", "InternalError",
          "IncompleteHeader", "InvalidSizeSum", "IncompleteData", "InvalidEntryTable"}

\* Signature values: <<"File">>, <<"Directory">>, <<"OS", code>>
File == <<"File">>
Directory == <<"Directory">>
OS(code) == <<"OS", code>>

ArchiveHeader_new(version, entry_count, names_size, extra_data_size, uncompressed_size) ==
    [_magic |-> MAGIC, version |-> version, entry_count |-> entry_count,
     names_size |-> names_size, extra_data_size |-> extra_data_size,
     uncompressed_size |-> uncompressed_size]

ArchiveTableEntry_new(signature, name_offset, name_len, extra_data_offset, extra_data_len, data_offset, data_len) ==
    [signature |-> signature, name_offset |-> name_offset, name_len |-> name_len,
     extra_data_offset |-> extra_data_offset, extra_data_len |-> extra_data_len,
     data_offset |-> data_offset, data_len |-> data_len]

----------------------------------------------------------------------------
(* The wire form of the repr(C) types: what bytemuck::bytes_of and           *)
(* bytemuck::cast_slice expose, and what the checked casts read back.        *)

\* bytemuck::bytes_of(&header)
bytes_of(header) ==
    header._magic
      \o to_le_bytes(header.version, 4)
      \o to_le_bytes(header.entry_count, 4)
      \o to_le_bytes(header.names_size, 8)
      \o to_le_bytes(header.extra_data_size, 8)
      \o to_le_bytes(header.uncompressed_size, 8)

\* The eight bytes of a Signature. File and Directory carry no field: their
\* last four bytes are uninitialised memory, read here as the byte pad.
Signature_bytes(signature, pad) ==
    IF signature = File THEN to_le_bytes(0, 4) \o <<pad, pad, pad, pad>>
    ELSE IF signature = Directory THEN to_le_bytes(1, 4) \o <<pad, pad, pad, pad>>
    ELSE U32_MAX \o to_le_bytes(signature[2], 4)

ArchiveTableEntry_bytes(e, pad) ==
    Signature_bytes(e.signature, pad)
      \o to_le_bytes(e.name_offset, 8)
      \o to_le_bytes(e.name_len, 8)
      \o to_le_bytes(e.extra_data_offset, 8)
      \o to_le_bytes(e.extra_data_len, 8)
      \o to_le_bytes(e.data_offset, 8)
      \o to_le_bytes(e.data_len, 8)

\* bytemuck::cast_slice(self.table_entries.as_slice())
cast_slice(entries, pad) ==
    Flatten([i \in 1..Len(entries) |-> ArchiveTableEntry_bytes(entries[i], pad)])

\* the ArchiveHeader that HeaderSize bytes are when reinterpreted in place
ArchiveHeader_of(b) ==
    [_magic |-> SubSeq(b, 1, 8),
     version |-> from_le_bytes(SubSeq(b, 9, 12)),
     entry_count |-> from_le_bytes(SubSeq(b, 13, 16)),
     names_size |-> from_le_bytes(SubSeq(b, 17, 24)),
     extra_data_size |-> from_le_bytes(SubSeq(b, 25, 32)),
     uncompressed_size |-> from_le_bytes(SubSeq(b, 33, 40))]

\* the Signature that eight valid bytes are when reinterpreted in place
Signature_of(bits) ==
    IF SubSeq(bits, 1, 4) = to_le_bytes(0, 4) THEN File
    ELSE IF SubSeq(bits, 1, 4) = to_le_bytes(1, 4) THEN Directory
    ELSE OS(from_le_bytes(SubSeq(bits, 5, 8)))

\* the ArchiveTableEntry that TableEntrySize valid bytes are when reinterpreted in place
ArchiveTableEntry_of(bits) ==
    ArchiveTableEntry_new(
        Signature_of(SubSeq(bits, 1, SignatureSize)),
        from_le_bytes(SubSeq(bits, 9, 16)),
        from_le_bytes(SubSeq(bits, 17, 24)),
        from_le_bytes(SubSeq(bits, 25, 32)),
        from_le_bytes(SubSeq(bits, 33, 40)),
        from_le_bytes(SubSeq(bits, 41, 48)),
        from_le_bytes(SubSeq(bits, 49, 56)))

----------------------------------------------------------------------------
(* builder.rs: ArchiveBuilder *)

ArchiveBuilder_new ==
    [names |-> <<>>, extra_data |-> <<>>, data |-> <<>>, table_entries |-> <<>>]

\* faulty variant of push_entry_record: the offsets are read after the appends
push_entry_record_after_append(b, signature, name, extra, payload) ==
    ArchiveTableEntry_new(signature,
                          Len(b.names) + Len(name), Len(name),
                          Len(b.extra_data) + Len(extra), Len(extra),
                          Len(b.data) + Len(payload), Len(payload))

\* the table entry push_entry records: offsets are read before each append
push_entry_record(b, signature, name, extra, payload) ==
    ArchiveTableEntry_new(signature,
                          Len(b.names), Len(name),
                          Len(b.extra_data), Len(extra),
                          Len(b.data), Len(payload))

\* ArchiveBuilder::push_entry(&mut self, signature, name, extra_data, data)
push_entry(b, signature, name, extra, payload) ==
    [names |-> b.names \o name,
     extra_data |-> b.extra_data \o extra,
     data |-> b.data \o payload,
     table_entries |->
         Append(b.table_entries, push_entry_record(b, signature, name, extra, payload))]

\* total_size of finish(): the sum the header records as uncompressed_size
finish_total_size(b) ==
    HeaderSize + Len(b.names) + Len(b.extra_data)
      + Len(b.table_entries) * TableEntrySize + Len(b.data)

\* the header finish() builds
finish_header(b) ==
    ArchiveHeader_new(VERSION_0_0_1_0,
                      Len(b.table_entries), Len(b.names), Len(b.extra_data),
                      finish_total_size(b))

\* faulty variant of finish: the extra data is written before the names
finish_extra_data_first(b, pad) ==
    bytes_of(finish_header(b))
      \o cast_slice(b.table_entries, pad)
      \o b.extra_data
      \o b.names
      \o b.data

\* ArchiveBuilder::finish(self): archive_bytes before the closing assert_eq!
finish(b, pad) ==
    bytes_of(finish_header(b))
      \o cast_slice(b.table_entries, pad)
      \o b.names
      \o b.extra_data
      \o b.data

----------------------------------------------------------------------------
(* lib.rs: header and table validation, Archive::new *)

\* bytemuck::try_from_bytes::<ArchiveHeader>(bytes) is Ok: the slice is exactly
\* one header long and starts at an address aligned for ArchiveHeader
try_from_bytes_ok(b, al) == Len(b) = HeaderSize /\ al

\* <&ArchiveHeader as TryFrom<&[u8]>>::try_from: "Ok" or the Error
ArchiveHeader_try_from(b, al) ==
    IF ~try_from_bytes_ok(b, al) THEN "IncompleteHeader"
    ELSE IF ArchiveHeader_of(b)._magic # MAGIC THEN "InvalidMagic"
    ELSE IF ~(\E i \in 1..Len(VERSIONS) : VERSIONS[i] = ArchiveHeader_of(b).version)
         THEN "InvalidVersion"
    ELSE "Ok"

\* faulty variant of Signature_is_valid_bit_pattern: the OS tag u32::MAX is left out
Signature_is_valid_bit_pattern_no_os(bits) ==
    \/ SubSeq(bits, 1, 4) = to_le_bytes(0, 4)
    \/ SubSeq(bits, 1, 4) = to_le_bytes(1, 4)

\* <Signature as CheckedBitPattern>::is_valid_bit_pattern: 0 | 1 | u32::MAX
Signature_is_valid_bit_pattern(bits) ==
    \/ SubSeq(bits, 1, 4) = to_le_bytes(0, 4)
    \/ SubSeq(bits, 1, 4) = to_le_bytes(1, 4)
    \/ SubSeq(bits, 1, 4) = U32_MAX

\* <ArchiveTableEntry as CheckedBitPattern>::is_valid_bit_pattern
ArchiveTableEntry_is_valid_bit_pattern(bits) ==
    Signature_is_valid_bit_pattern(SubSeq(bits, 1, SignatureSize))

\* the k-th TableEntrySize-byte element of the table bytes
chunk(b, k) == SubSeq(b, (k - 1) * TableEntrySize + 1, k * TableEntrySize)

\* bytemuck::checked::try_cast_slice is Ok: every element has a valid bit pattern
\* (the byte length is a multiple of the element size by construction and
\* the table starts HeaderSize bytes after an aligned header)
try_cast_slice_ok(b) ==
    \A k \in 1..(Len(b) \div TableEntrySize) :
        ArchiveTableEntry_is_valid_bit_pattern(chunk(b, k))

\* the &[ArchiveTableEntry] the cast yields
try_cast_slice(b) ==
    [k \in 1..(Len(b) \div TableEntrySize) |-> ArchiveTableEntry_of(chunk(b, k))]

NoArchive == [header |-> <<>>, entry_table |-> <<>>, names |-> <<>>,
              extra_data |-> <<>>, data |-> <<>>]

Returned(r, a) == [panic |-> "none", result |-> r, archive |-> a]
Panicked(why) == [panic |-> why, result |-> "none", archive |-> NoArchive]

\* Archive::new(data): the four split_at calls panic when mid > len
Archive_new(buf, al) ==
    IF HeaderSize > Len(buf) THEN Panicked("split_at")
    ELSE
    LET s1 == split_at(buf, HeaderSize)
        hr == ArchiveHeader_try_from(s1[1], al)
        header == ArchiveHeader_of(s1[1])
        entry_table_size == header.entry_count * TableEntrySize
    IN
    IF hr # "Ok" THEN Returned(hr, NoArchive)
    ELSE IF entry_table_size > Len(s1[2]) THEN Panicked("split_at")
    ELSE
    LET s2 == split_at(s1[2], entry_table_size) IN
    IF ~try_cast_slice_ok(s2[1]) THEN Returned("InvalidEntryTable", NoArchive)
    ELSE IF header.names_size > Len(s2[2]) THEN Panicked("split_at")
    ELSE
    LET s3 == split_at(s2[2], header.names_size) IN
    IF header.extra_data_size > Len(s3[2]) THEN Panicked("split_at")
    ELSE
    LET s4 == split_at(s3[2], header.extra_data_size) IN
    Returned("Ok", [header |-> header,
                    entry_table |-> try_cast_slice(s2[1]),
                    names |-> s3[1],
                    extra_data |-> s4[1],
                    data |-> s4[2]])

\* Archive::iter(&self)
Archive_iter(a) ==
    [entries |-> a.entry_table, names |-> a.names, extra_data |-> a.extra_data,
     data |-> a.data, index |-> 0]

----------------------------------------------------------------------------
(* lib.rs: ArchiveEntry and ArchiveIterator *)

\* core::str::from_utf8(b).is_ok(), from position i on
RECURSIVE utf8_from(_, _)
utf8_from(b, i) ==
    LET n == Len(b)
        cont(j) == j <= n /\ b[j] >= 128 /\ b[j] <= 191
        c == b[i]
    IN
    IF i > n THEN TRUE
    ELSE IF c <= 127 THEN utf8_from(b, i + 1)
    ELSE IF c >= 194 /\ c <= 223 THEN cont(i + 1) /\ utf8_from(b, i + 2)
    ELSE IF c = 224 THEN
        i + 1 <= n /\ b[i + 1] >= 160 /\ b[i + 1] <= 191 /\ cont(i + 2) /\ utf8_from(b, i + 3)
    ELSE IF (c >= 225 /\ c <= 236) \/ c = 238 \/ c = 239 THEN
        cont(i + 1) /\ cont(i + 2) /\ utf8_from(b, i + 3)
    ELSE IF c = 237 THEN
        i + 1 <= n /\ b[i + 1] >= 128 /\ b[i + 1] <= 159 /\ cont(i + 2) /\ utf8_from(b, i + 3)
    ELSE IF c = 240 THEN
        i + 1 <= n /\ b[i + 1] >= 144 /\ b[i + 1] <= 191 /\ cont(i + 2) /\ cont(i + 3)
            /\ utf8_from(b, i + 4)
    ELSE IF c >= 241 /\ c <= 243 THEN
        cont(i + 1) /\ cont(i + 2) /\ cont(i + 3) /\ utf8_from(b, i + 4)
    ELSE IF c = 244 THEN
        i + 1 <= n /\ b[i + 1] >= 128 /\ b[i + 1] <= 143 /\ cont(i + 2) /\ cont(i + 3)
            /\ utf8_from(b, i + 4)
    ELSE FALSE

from_utf8_ok(b) == utf8_from(b, 1)

\* &seg[offset..(offset + len)] does not panic. An operand read as Big makes
\* the sum overflow or the end pass the segment: the slice panics either way.
in_range(seg, offset, len) == offset + len <= Len(seg)

\* faulty variant of slice: the range ends at len, not at offset + len
slice_to_len(seg, offset, len) == SubSeq(seg, offset + 1, len)

\* &seg[offset..(offset + len)]
slice(seg, offset, len) == SubSeq(seg, offset + 1, offset + len)

Entry(name, extra, payload) == [name |-> name, extra_data |-> extra, data |-> payload]
NoEntry == Entry(<<>>, <<>>, <<>>)

\* ArchiveEntry::from_table_entry: the entry, or the panic of an index or of expect()
from_table_entry(table_entry, nm, ex, da) ==
    IF ~in_range(nm, table_entry.name_offset, table_entry.name_len)
        THEN [panic |-> "slice_index", entry |-> NoEntry]
    ELSE IF ~in_range(ex, table_entry.extra_data_offset, table_entry.extra_data_len)
        THEN [panic |-> "slice_index", entry |-> NoEntry]
    ELSE IF ~in_range(da, table_entry.data_offset, table_entry.data_len)
        THEN [panic |-> "slice_index", entry |-> NoEntry]
    ELSE IF ~from_utf8_ok(slice(nm, table_entry.name_offset, table_entry.name_len))
        THEN [panic |-> "from_utf8", entry |-> NoEntry]
    ELSE [panic |-> "none",
          entry |-> Entry(slice(nm, table_entry.name_offset, table_entry.name_len),
                          slice(ex, table_entry.extra_data_offset, table_entry.extra_data_len),
                          slice(da, table_entry.data_offset, table_entry.data_len))]

\* usize::MAX, the value 0 - 1 wraps to; kept as -1, its residue modulo 2^64
USIZE_MAX == 0 - 1

\* self.entries.get(index) is Some
get_some(entries, index) == index >= 0 /\ index < Len(entries)

None == [some |-> FALSE, entry |-> NoEntry]
Some(e) == [some |-> TRUE, entry |-> e]

NoIter == [entries |-> <<>>, names |-> <<>>, extra_data |-> <<>>, data |-> <<>>, index |-> 0]

\* <ArchiveIterator as ExactSizeIterator>::len: entries.len() - index, wrapping
\* modulo 2^64 where overflow checks are off
len(it) == Len(it.entries) - it.index

\* the index next() leaves
next_index(index) == index + 1

\* the index next_back() leaves where the subtraction does not overflow
next_back_index(index) == index - 1

\* the table entry next() and next_back() pass to from_table_entry
visited(entries, index) == entries[index + 1]

----------------------------------------------------------------------------
(* Inputs *)

\* the (signature, name, extra_data, data) tuples push_entry is called with;
\* names are &str, so valid UTF-8: "a", "d" and the two-byte "e-acute"
EntryInputs ==
    { <<File, <<97>>, <<>>, <<104, 105>>>>,
      <<Directory, <<100>>, <<1, 2>>, <<>>>>,
      <<OS(7), <<195, 169>>, <<9>>, <<5>>>> }

\* what the uninitialised bytes of a File or Directory signature may read as
PadBytes == {0, 170}

\* the values a caller overwrites one byte of the buffer with
CorruptBytes == {1, 255}

builder == [names |-> names, extra_data |-> extra_data, data |-> data,
            table_entries |-> table_entries]

----------------------------------------------------------------------------
(* The state machine *)

\* ArchiveBuilder::new()
Init ==
    /\ names = ArchiveBuilder_new.names
    /\ extra_data = ArchiveBuilder_new.extra_data
    /\ data = ArchiveBuilder_new.data
    /\ table_entries = ArchiveBuilder_new.table_entries
    /\ pushed = <<>>
    /\ bytes = <<>>
    /\ aligned = TRUE
    /\ source = "none"
    /\ result = "none"
    /\ archive = NoArchive
    /\ iter = NoIter
    /\ calls = <<>>
    /\ rets = <<>>
    /\ panicked = "none"
    /\ pc = "build"

\* builder.push_entry(signature, name, extra_data, data)
PushEntry ==
    /\ pc = "build"
    /\ Len(table_entries) < MaxEntries
    /\ \E e \in EntryInputs :
        LET b == push_entry(builder, e[1], e[2], e[3], e[4]) IN
        /\ names' = b.names
        /\ extra_data' = b.extra_data
        /\ data' = b.data
        /\ table_entries' = b.table_entries
        /\ pushed' = Append(pushed, e)
    /\ UNCHANGED <<bytes, aligned, source, result, archive, iter, calls, rets, panicked, pc>>

\* builder.finish(): the Vec it returns, or the panic of its assert_eq!.
\* The Vec's storage comes from the global allocator of the binary (std's
\* System allocator in src/main.rs), whose blocks are aligned for u64.
Finish ==
    /\ pc = "build"
    /\ \E pad \in PadBytes :
        LET archive_bytes == finish(builder, pad) IN
        IF finish_total_size(builder) = Len(archive_bytes)
        THEN /\ bytes' = archive_bytes
             /\ aligned' = TRUE
             /\ source' = "finish"
             /\ pc' = "bytes"
             /\ UNCHANGED panicked
        ELSE /\ panicked' = "assert_eq"
             /\ pc' = "panic"
             /\ UNCHANGED <<bytes, aligned, source>>
    /\ UNCHANGED <<names, extra_data, data, table_entries, pushed, result, archive,
                   iter, calls, rets>>

\* the caller overwrites one byte of the archive before decoding it
Corrupt ==
    /\ pc = "bytes"
    /\ source = "finish"
    /\ \E pos \in 1..Len(bytes), v \in CorruptBytes :
        /\ bytes[pos] # v
        /\ bytes' = [bytes EXCEPT ![pos] = v]
    /\ source' = "corrupt"
    /\ UNCHANGED <<names, extra_data, data, table_entries, pushed, aligned, result,
                   archive, iter, calls, rets, panicked, pc>>

\* the caller cuts the archive short before decoding it
Truncate ==
    /\ pc = "bytes"
    /\ source = "finish"
    /\ \E n \in 0..(Len(bytes) - 1) : bytes' = SubSeq(bytes, 1, n)
    /\ source' = "truncate"
    /\ UNCHANGED <<names, extra_data, data, table_entries, pushed, aligned, result,
                   archive, iter, calls, rets, panicked, pc>>

\* the caller decodes the bytes from a place that is not aligned for
\* ArchiveHeader (a sub-slice, a packed field, a copy at an odd address)
Relocate ==
    /\ pc = "bytes"
    /\ aligned
    /\ aligned' = FALSE
    /\ UNCHANGED <<names, extra_data, data, table_entries, pushed, bytes, source, result,
                   archive, iter, calls, rets, panicked, pc>>

\* Archive::new(&bytes)
New ==
    /\ pc = "bytes"
    /\ LET r == Archive_new(bytes, aligned) IN
        /\ result' = r.result
        /\ archive' = r.archive
        /\ panicked' = r.panic
        /\ pc' = IF r.panic # "none" THEN "panic"
                 ELSE IF r.result = "Ok" THEN "archive" ELSE "error"
    /\ UNCHANGED <<names, extra_data, data, table_entries, pushed, bytes, aligned, source,
                   iter, calls, rets>>

\* archive.iter()
Iter ==
    /\ pc = "archive"
    /\ iter' = Archive_iter(archive)
    /\ pc' = "iter"
    /\ UNCHANGED <<names, extra_data, data, table_entries, pushed, bytes, aligned, source,
                   result, archive, calls, rets, panicked>>

\* what follows `self.index = index` in next() and next_back(): the entry is
\* materialised from table_entry and returned, or from_table_entry panics
Materialise(table_entry, index, kind) ==
    LET m == from_table_entry(table_entry, iter.names, iter.extra_data, iter.data) IN
    /\ iter' = [iter EXCEPT !.index = index]
    /\ calls' = Append(calls, kind)
    /\ IF m.panic = "none"
       THEN /\ rets' = Append(rets, Some(m.entry))
            /\ UNCHANGED <<panicked, pc>>
       ELSE /\ panicked' = m.panic
            /\ pc' = "panic"
            /\ UNCHANGED rets

\* iter.next()
IterNext ==
    /\ pc = "iter"
    /\ Len(calls) < MaxCalls
    /\ IF ~get_some(iter.entries, iter.index)
       THEN /\ calls' = Append(calls, "next")
            /\ rets' = Append(rets, None)
            /\ UNCHANGED <<iter, panicked, pc>>
       ELSE Materialise(visited(iter.entries, iter.index), next_index(iter.index), "next")
    /\ UNCHANGED <<names, extra_data, data, table_entries, pushed, bytes, aligned, source,
                   result, archive>>

\* iter.next_back() where `self.index -= 1` does not overflow, or returns None before it
IterNextBack ==
    /\ pc = "iter"
    /\ Len(calls) < MaxCalls
    /\ ~get_some(iter.entries, iter.index) \/ iter.index > 0
    /\ IF ~get_some(iter.entries, iter.index)
       THEN /\ calls' = Append(calls, "next_back")
            /\ rets' = Append(rets, None)
            /\ UNCHANGED <<iter, panicked, pc>>
       ELSE Materialise(visited(iter.entries, iter.index), next_back_index(iter.index),
                        "next_back")
    /\ UNCHANGED <<names, extra_data, data, table_entries, pushed, bytes, aligned, source,
                   result, archive>>

\* iter.next_back() at index 0 in a build with overflow checks (debug profile):
\* `self.index -= 1` panics with "attempt to subtract with overflow"
IterNextBackOverflowPanic ==
    /\ pc = "iter"
    /\ Len(calls) < MaxCalls
    /\ get_some(iter.entries, iter.index) /\ iter.index = 0
    /\ calls' = Append(calls, "next_back")
    /\ panicked' = "subtract_overflow"
    /\ pc' = "panic"
    /\ UNCHANGED <<names, extra_data, data, table_entries, pushed, bytes, aligned, source,
                   result, archive, iter, rets>>

\* iter.next_back() at index 0 in a build without overflow checks (release
\* profile): `self.index -= 1` wraps to usize::MAX
IterNextBackOverflowWrap ==
    /\ pc = "iter"
    /\ Len(calls) < MaxCalls
    /\ get_some(iter.entries, iter.index) /\ iter.index = 0
    /\ Materialise(visited(iter.entries, iter.index), USIZE_MAX, "next_back")
    /\ UNCHANGED <<names, extra_data, data, table_entries, pushed, bytes, aligned, source,
                   result, archive>>

Next ==
    \/ PushEntry
    \/ Finish
    \/ Corrupt
    \/ Truncate
    \/ Relocate
    \/ New
    \/ Iter
    \/ IterNext
    \/ IterNextBack
    \/ IterNextBackOverflowPanic
    \/ IterNextBackOverflowWrap

Spec == Init /\ [][Next]_vars

----------------------------------------------------------------------------
(* What the pushed tuples say the archive must hold *)

PushedNames == [i \in 1..Len(pushed) |-> pushed[i][2]]
PushedExtras == [i \in 1..Len(pushed) |-> pushed[i][3]]
PushedPayloads == [i \in 1..Len(pushed) |-> pushed[i][4]]

\* the total length of the first k sequences of ss
LenBefore(ss, k) == SumSeq([j \in 1..k |-> Len(ss[j])])

\* the entry the i-th push_entry call describes
PushedEntry(i) == Entry(pushed[i][2], pushed[i][3], pushed[i][4])

\* the number of calls among the first k that returned Some
SomeCount(k) == Cardinality({j \in 1..k : rets[j].some})

\* Archive::new has been called on the buffer
Decoded == pc \in {"archive", "error", "iter", "panic"} /\ source # "none"

\* the buffer is the Vec finish() returned, untouched
Untouched == source = "finish" /\ aligned

\* the header fields and table tags as the bytes of the buffer spell them
WireHeader == ArchiveHeader_of(SubSeq(bytes, 1, HeaderSize))
WireTag(k) == SubSeq(bytes, HeaderSize + (k - 1) * TableEntrySize + 1,
                            HeaderSize + (k - 1) * TableEntrySize + 4)
WireNeeded == WireHeader.entry_count * TableEntrySize + WireHeader.names_size
                + WireHeader.extra_data_size
WireHeaderValid ==
    /\ Len(bytes) >= HeaderSize
    /\ aligned
    /\ SubSeq(bytes, 1, 8) = MAGIC
    /\ SubSeq(bytes, 9, 12) = <<0, 0, 1, 0>>

----------------------------------------------------------------------------
(* Claims *)

\* C1: round trip. Decoding the bytes finish() returned succeeds, and calling
\* next() until None yields one entry per push_entry call, in push order,
\* each with the pushed name, extra_data and data, then None.
C1_RoundTrip ==
    (Untouched /\ Decoded) =>
        /\ result = "Ok"
        /\ archive.header.entry_count = Len(pushed)
        /\ (\A k \in 1..Len(calls) : calls[k] = "next") =>
              /\ panicked = "none"
              /\ Len(rets) = Len(calls)
              /\ \A k \in 1..Len(rets) :
                    rets[k] = IF k <= Len(pushed) THEN Some(PushedEntry(k)) ELSE None

\* C1 witness: two different tuples pushed, decoded, and drained by three next() calls
C1_Witness ==
    /\ Untouched
    /\ Len(pushed) = 2
    /\ pushed[1] # pushed[2]
    /\ calls = <<"next", "next", "next">>
    /\ Len(rets) = 3
    /\ rets[1].some /\ rets[2].some /\ ~rets[3].some

\* C2: next_back() until None yields the entries in reverse table order: the
\* k-th entry from the back is table entry n-1-k, n entries in all, then None.
C2_BackwardIsReverse ==
    (Untouched /\ Decoded /\ calls # <<>> /\ \A k \in 1..Len(calls) : calls[k] = "next_back") =>
        /\ panicked = "none"
        /\ Len(rets) = Len(calls)
        /\ \A k \in 1..Len(rets) :
              rets[k] = IF k <= Len(pushed)
                        THEN Some(PushedEntry(Len(pushed) + 1 - k))
                        ELSE None

\* C3: len() is the number of entries not yet returned: n minus the calls
\* that returned Some, within 0..n, and a call returns None exactly when
\* len() was 0 before it.
C3_LenIsRemaining ==
    (Untouched /\ pc = "iter") =>
        /\ len(iter) = Len(iter.entries) - SomeCount(Len(rets))
        /\ len(iter) >= 0
        /\ len(iter) <= Len(iter.entries)
        /\ \A k \in 1..Len(rets) :
              ~rets[k].some <=> (Len(iter.entries) - SomeCount(k - 1) = 0)

\* C4: a buffer shorter than the header makes Archive::new return
\* Err(IncompleteHeader), without a panic.
C4_ShortBufferIncompleteHeader ==
    (Decoded /\ Len(bytes) < HeaderSize) =>
        /\ panicked = "none"
        /\ result = "IncompleteHeader"

\* C5: a buffer with a valid header and fewer bytes behind it than the table,
\* names and extra-data segments need makes Archive::new return
\* Err(IncompleteData), without a panic.
C5_ShortSegmentsIncompleteData ==
    (Decoded /\ WireHeaderValid /\ Len(bytes) - HeaderSize < WireNeeded) =>
        /\ panicked = "none"
        /\ result = "IncompleteData"

\* C6: on every buffer at least a header long, a wrong magic gives
\* Err(InvalidMagic) whatever the version; a right magic with an unsupported
\* version gives Err(InvalidVersion); a right magic with a supported version
\* gives neither.
C6_HeaderValidation ==
    (Decoded /\ Len(bytes) >= HeaderSize) =>
        /\ SubSeq(bytes, 1, 8) # MAGIC => result = "InvalidMagic"
        /\ (SubSeq(bytes, 1, 8) = MAGIC /\ SubSeq(bytes, 9, 12) # <<0, 0, 1, 0>>)
              => result = "InvalidVersion"
        /\ (SubSeq(bytes, 1, 8) = MAGIC /\ SubSeq(bytes, 9, 12) = <<0, 0, 1, 0>>)
              => result \notin {"InvalidMagic", "InvalidVersion"}

\* The same three cases on buffers that start at an address aligned for ArchiveHeader.
HeaderValidationAligned == aligned => C6_HeaderValidation

\* C7: with a valid header and enough bytes for the table, names and extra
\* data, Archive::new returns Err(InvalidEntryTable) exactly when one of the
\* entry_count table entries has a tag other than 0, 1 and u32::MAX, and
\* Ok otherwise; the four bytes after the tag never matter.
C7_SignatureValidation ==
    (Decoded /\ WireHeaderValid /\ Len(bytes) - HeaderSize >= WireNeeded) =>
        /\ panicked # "split_at"
        /\ result \in {"Ok", "InvalidEntryTable"}
        /\ result = "InvalidEntryTable" <=>
              \E k \in 1..WireHeader.entry_count :
                  WireTag(k) \notin {<<0, 0, 0, 0>>, <<1, 0, 0, 0>>, <<255, 255, 255, 255>>}

\* C7 witness: two table entries, the first with a valid tag and the second
\* with an invalid one, and the parse failed with InvalidEntryTable
C7_Witness ==
    /\ Decoded /\ WireHeaderValid /\ Len(bytes) - HeaderSize >= WireNeeded
    /\ WireHeader.entry_count = 2
    /\ WireTag(1) = <<255, 255, 255, 255>>
    /\ WireTag(2) \notin {<<0, 0, 0, 0>>, <<1, 0, 0, 0>>, <<255, 255, 255, 255>>}
    /\ result = "InvalidEntryTable"

\* C8: the bytes finish() returns are header, table, names, extra data,
\* payload in that order; the header counts the pushes and the bytes of the
\* pushed names and extra data, and its total size is the sum of the five
\* parts and the length of the buffer. An empty builder gives an archive
\* that decodes with no entries and an iterator that returns None at once.
C8_HeaderDescribesBuffer ==
    /\ panicked # "assert_eq"
    /\ source = "finish" =>
        LET n == Len(pushed)
            ns == LenBefore(PushedNames, n)
            es == LenBefore(PushedExtras, n)
            ds == LenBefore(PushedPayloads, n)
            t == HeaderSize + n * TableEntrySize
        IN
        /\ Len(bytes) = t + ns + es + ds
        /\ WireHeader._magic = MAGIC
        /\ WireHeader.version = VERSION_0_0_1_0
        /\ WireHeader.entry_count = n
        /\ WireHeader.names_size = ns
        /\ WireHeader.extra_data_size = es
        /\ WireHeader.uncompressed_size = Len(bytes)
        /\ \A k \in 1..n :
              WireTag(k) = IF pushed[k][1] = File THEN <<0, 0, 0, 0>>
                           ELSE IF pushed[k][1] = Directory THEN <<1, 0, 0, 0>>
                           ELSE <<255, 255, 255, 255>>
        /\ SubSeq(bytes, t + 1, t + ns) = Flatten(PushedNames)
        /\ SubSeq(bytes, t + ns + 1, t + ns + es) = Flatten(PushedExtras)
        /\ SubSeq(bytes, t + ns + es + 1, Len(bytes)) = Flatten(PushedPayloads)
        /\ (n = 0 /\ Untouched /\ Decoded) =>
              /\ result = "Ok"
              /\ archive.header.entry_count = 0
              /\ panicked = "none"
              /\ \A k \in 1..Len(rets) : rets[k] = None

\* C8 witness: a File entry then a Directory entry with extra data, finished
C8_Witness ==
    /\ source = "finish"
    /\ Len(pushed) = 2
    /\ pushed[1][1] = File
    /\ pushed[2][1] = Directory
    /\ Len(bytes) > HeaderSize + 2 * TableEntrySize

\* C9: materialising a visited table entry whose name, extra-data or data
\* range leaves its segment, or whose name is not UTF-8, reports an error
\* and never panics.
C9_MaterialiseNeverPanics ==
    panicked \notin {"slice_index", "from_utf8"}

\* C10 (state part): the table has one entry per push_entry call, in call
\* order; each entry records the pushed signature, for each segment the
\* length of the segment before the call and the length appended, so its
\* ranges lie inside the segments and follow each other without gap or overlap.
BuilderTableInv ==
    /\ Len(table_entries) = Len(pushed)
    /\ names = Flatten(PushedNames)
    /\ extra_data = Flatten(PushedExtras)
    /\ data = Flatten(PushedPayloads)
    /\ \A i \in 1..Len(table_entries) :
          LET e == table_entries[i] IN
          /\ e.signature = pushed[i][1]
          /\ e.name_offset = LenBefore(PushedNames, i - 1)
          /\ e.name_len = Len(pushed[i][2])
          /\ e.extra_data_offset = LenBefore(PushedExtras, i - 1)
          /\ e.extra_data_len = Len(pushed[i][3])
          /\ e.data_offset = LenBefore(PushedPayloads, i - 1)
          /\ e.data_len = Len(pushed[i][4])
          /\ e.name_offset + e.name_len <= Len(names)
          /\ e.extra_data_offset + e.extra_data_len <= Len(extra_data)
          /\ e.data_offset + e.data_len <= Len(data)
          /\ i < Len(table_entries) =>
                /\ table_entries[i + 1].name_offset = e.name_offset + e.name_len
                /\ table_entries[i + 1].extra_data_offset
                      = e.extra_data_offset + e.extra_data_len
                /\ table_entries[i + 1].data_offset = e.data_offset + e.data_len

\* C10 (step part): a push_entry call leaves the entries and bytes recorded
\* before it as they were, and appends exactly one entry.
PushPreserves ==
    table_entries' # table_entries =>
        /\ Len(table_entries') = Len(table_entries) + 1
        /\ SubSeq(table_entries', 1, Len(table_entries)) = table_entries
        /\ SubSeq(names', 1, Len(names)) = names
        /\ SubSeq(extra_data', 1, Len(extra_data)) = extra_data
        /\ SubSeq(data', 1, Len(data)) = data

\* C10: the builder table invariant, in every state and over every step
C10_BuilderTable == []BuilderTableInv /\ [][PushPreserves]_vars

\* C10 witness: two pushes, the second entry starting where the first ends
C10_Witness ==
    /\ pc = "build"
    /\ Len(table_entries) = 2
    /\ table_entries[2].name_offset > 0
    /\ table_entries[2].data_offset + table_entries[2].data_len = Len(data)

====
